---- MODULE Spec2Model ----
(***************************************************************************)
(* Food-delivery backend: the order-creation, delivery-status and payment  *)
(* handlers of backend_api/src/api/routers over the relational store of    *)
(* backend_api/src/api/models/db_models.py.  Every handler runs in its own *)
(* session obtained from get_db (core/db.py); a session works on its own   *)
(* transaction view, db.commit() makes the view durable and db.close()     *)
(* discards whatever was not committed.                                    *)
(***************************************************************************)
EXTENDS Integers, Sequences, FiniteSets, TLC

VARIABLES restaurants, menu_items, orders, order_items, payments,
          order_id_seq, served, req, resp, session_log, co

vars == <<restaurants, menu_items, orders, order_items, payments,
          order_id_seq, served, req, resp, session_log, co>>

tables == <<restaurants, menu_items, orders, order_items, payments>>

(* ------------------------------ bounds --------------------------------- *)
MaxRestaurants == 2
MaxMenuItems == 2
MaxOrderId == 2
MaxLines == 2
MaxQty == 2
MaxPayments == 2
MaxRequests == 5

(* --------------------------- input domains ----------------------------- *)
Prices == {2, 3}
Amounts == {-1, 0, 3, 6}
Providers == {"mock", "card"}

(* mutant: the status string is not validated *)
_VALID_STATUSES_unchecked ==
    {"created", "paid", "preparing", "out_for_delivery", "delivered", "cancelled",
     "bogus"}

_VALID_STATUSES ==
    {"created", "paid", "preparing", "out_for_delivery", "delivered", "cancelled"}

StatusInputs == _VALID_STATUSES \cup {"bogus"}

RestaurantIdInputs == 1..MaxRestaurants
MenuItemIdInputs == 1..MaxMenuItems
OrderIdInputs == 1..MaxOrderId

SeqsUpTo(S, n) == UNION {[1..k -> S] : k \in 0..n}

LineInputs == [menu_item_id : MenuItemIdInputs, quantity : 0..MaxQty]

MenuItemCreateInputs ==
    [restaurant_id : RestaurantIdInputs, price_cents : Prices, is_available : BOOLEAN]

PaymentCreateInputs ==
    [order_id : OrderIdInputs, amount_cents : Amounts, provider : Providers]

ListStatusInputs == {"None", "paid"}
ListLimits == {1, 50}
ListOffsets == {0, 1}

OrderCreateInputs ==
    [restaurant_id : RestaurantIdInputs, items : SeqsUpTo(LineInputs, MaxLines)]

(* ------------------------------ helpers -------------------------------- *)
RECURSIVE SumSeq(_)
SumSeq(s) == IF s = <<>> THEN 0 ELSE Head(s) + SumSeq(Tail(s))

RECURSIVE Reverse(_)
Reverse(s) == IF s = <<>> THEN <<>> ELSE Reverse(Tail(s)) \o <<Head(s)>>

(* rows [from+1 .. from+count] of s, as LIMIT count OFFSET from *)
Slice(s, from, count) ==
    LET hi == IF from + count < Len(s) THEN from + count ELSE Len(s)
    IN  IF from >= Len(s) THEN <<>> ELSE SubSeq(s, from + 1, hi)

(* ------------------------- request validation -------------------------- *)
(* OrderItemCreate.quantity: ge=1 *)
OrderItemCreate(line) == line.quantity >= 1

(* mutant: OrderCreate.items without min_length=1 *)
OrderCreate_no_min_length(payload) ==
    \A i \in 1..Len(payload.items) : OrderItemCreate(payload.items[i])

(* OrderCreate.items: min_length=1, every element an OrderItemCreate *)
OrderCreate(payload) ==
    /\ Len(payload.items) >= 1
    /\ \A i \in 1..Len(payload.items) : OrderItemCreate(payload.items[i])

(* PaymentCreate.amount_cents: ge=0 *)
PaymentCreate(payload) == payload.amount_cents >= 0

(* ------------------------------ session -------------------------------- *)
(* A session: the rows durable in the store, the rows its transaction sees *)
(* (durable rows plus its own flushed writes) and the objects added but    *)
(* not yet flushed (autoflush=False).                                      *)
Store == [orders |-> orders, order_items |-> order_items, payments |-> payments]

SessionLocal == [durable |-> Store, view |-> Store, pending |-> <<>>]

(* db.get(Restaurant, id) / db.get(MenuItem, id): None when absent *)
has_restaurant(id) == id \in DOMAIN restaurants
has_menu_item(id) == id \in DOMAIN menu_items

(* select(Order).where(Order.id == order_id) ... .first() *)
select_order(os, order_id) == SelectSeq(os, LAMBDA o : o.id = order_id)

(* selectinload(Order.items): the order_items rows of the order *)
load_items(ois, order_id) == SelectSeq(ois, LAMBDA oi : oi.order_id = order_id)

(* OrderItemRead.model_validate(oi) *)
OrderItemRead(oi) ==
    [id |-> oi.id,
     menu_item_id |-> oi.menu_item_id,
     quantity |-> oi.quantity,
     price_cents_each |-> oi.price_cents_each]

_order_to_read(st, order) ==
    LET ois == load_items(st.order_items, order.id)
    IN  [id |-> order.id,
         restaurant_id |-> order.restaurant_id,
         status |-> order.status,
         total_cents |-> order.total_cents,
         items |-> [i \in 1..Len(ois) |-> OrderItemRead(ois[i])]]

(* db.add(order); db.flush(): the Order row is inserted in the transaction *)
add_flush_order(sess, order) ==
    [sess EXCEPT !.view.orders = Append(@, order)]

(* db.add(order_item) *)
add_order_item(sess, oi) == [sess EXCEPT !.pending = Append(@, oi)]

(* flush at commit: pending OrderItems are inserted with fresh ids *)
flush(sess) ==
    LET n == Len(sess.view.order_items)
        rows == [i \in 1..Len(sess.pending) |->
                    [id |-> n + i,
                     order_id |-> sess.pending[i].order_id,
                     menu_item_id |-> sess.pending[i].menu_item_id,
                     quantity |-> sess.pending[i].quantity,
                     price_cents_each |-> sess.pending[i].price_cents_each]]
    IN  [sess EXCEPT !.view.order_items = @ \o rows, !.pending = <<>>]

(* db.commit() *)
commit(sess) ==
    LET f == flush(sess) IN [f EXCEPT !.durable = f.view]

(* mutant: the session's uncommitted work is committed when it is closed *)
get_db_commit_on_close(sess) == flush(sess).view

(* get_db: finally db.close(); uncommitted work is rolled back *)
get_db(sess) == sess.durable

(* mutant: the status is written to every order (no WHERE on the id) *)
set_status_every_order(sess, order_id, value) ==
    [sess EXCEPT !.view.orders = [i \in 1..Len(@) |-> [@[i] EXCEPT !.status = value]]]

(* order.status = value on the session's Order object *)
set_status(sess, order_id, value) ==
    [sess EXCEPT !.view.orders =
        [i \in 1..Len(@) |->
            IF @[i].id = order_id THEN [@[i] EXCEPT !.status = value] ELSE @[i]]]

(* mutant: the computed total is never stored on the order *)
set_total_cents_dropped(sess, order_id, value) == sess

(* order.total_cents = value on the session's Order object *)
set_total_cents(sess, order_id, value) ==
    [sess EXCEPT !.view.orders =
        [i \in 1..Len(@) |->
            IF @[i].id = order_id THEN [@[i] EXCEPT !.total_cents = value] ELSE @[i]]]

(* ------------------------- session acquisition ------------------------ *)
(* session_log: how many sessions are open, and how often close() was      *)
(* called on the session of the request that finished last.                *)
(* get_db up to its yield: db = _SessionLocal(); yield db *)
get_db_yield == [open |-> TRUE, closes |-> 0]

(* mutant: db.close() follows the yield without try/finally, so it runs    *)
(* only when the generator is resumed normally                             *)
get_db_finally_missing(db, how) ==
    IF how = "return" THEN [open |-> FALSE, closes |-> db.closes + 1] ELSE db

(* get_db after its yield, left by how: "return" (resumed), "raise" (an    *)
(* exception thrown in) or "close" (GeneratorExit): finally db.close()     *)
get_db_finally(db, how) == [open |-> FALSE, closes |-> db.closes + 1]

(* db_session: gen = get_db(); session = next(gen); try: yield session;    *)
(* finally: gen.close() (session.close() only if gen.close() raised,       *)
(* which db.close() never does)                                            *)
db_session_scope(outcome) == get_db_finally(get_db_yield, "close")

(* the log once a request that held session db has ended; counted says     *)
(* whether db was already counted among the open sessions                  *)
request_ended(log, db, counted) ==
    [open |-> log.open - (IF counted THEN 1 ELSE 0) + (IF db.open THEN 1 ELSE 0),
     closes |-> db.closes]

(* how a handler that answered with code left the get_db generator *)
exit_of(code) == IF code = 200 THEN "return" ELSE "raise"

(* Depends(get_db) around a handler: the session is acquired before the    *)
(* handler runs and released when it returned or raised                    *)
depends_get_db ==
    /\ session_log' = request_ended(session_log,
                                    get_db_finally(get_db_yield, exit_of(resp'.code)),
                                    FALSE)
    /\ UNCHANGED co

(* one more request is served (the model stops at MaxRequests requests) *)
serve == served < MaxRequests /\ served' = served + 1

(* ----------------------------- create_order ---------------------------- *)
(* mutant: the running total adds the unit price, not price * quantity *)
RECURSIVE stage_lines_unit_price(_, _, _, _, _)
stage_lines_unit_price(sess, payload, order_id, i, total) ==
    IF i > Len(payload.items)
    THEN [sess |-> sess, total |-> total, code |-> 0, detail |-> "", menu_item_id |-> 0]
    ELSE LET line == payload.items[i] IN
         IF \/ ~has_menu_item(line.menu_item_id)
            \/ menu_items[line.menu_item_id].restaurant_id # payload.restaurant_id
         THEN [sess |-> sess, total |-> total, code |-> 400,
               detail |-> "Invalid menu item", menu_item_id |-> line.menu_item_id]
         ELSE IF ~menu_items[line.menu_item_id].is_available
         THEN [sess |-> sess, total |-> total, code |-> 400,
               detail |-> "Menu item is not available", menu_item_id |-> line.menu_item_id]
         ELSE LET price_each == menu_items[line.menu_item_id].price_cents
                  order_item == [order_id |-> order_id,
                                 menu_item_id |-> line.menu_item_id,
                                 quantity |-> line.quantity,
                                 price_cents_each |-> price_each]
              IN  stage_lines_unit_price(add_order_item(sess, order_item), payload,
                                         order_id, i + 1, total + price_each)

(* The for-loop over payload.items from line i on, with the running total. *)
(* Returns the session, the total and the HTTPException raised (code 0 if  *)
(* none).                                                                  *)
RECURSIVE stage_lines(_, _, _, _, _)
stage_lines(sess, payload, order_id, i, total) ==
    IF i > Len(payload.items)
    THEN [sess |-> sess, total |-> total, code |-> 0, detail |-> "", menu_item_id |-> 0]
    ELSE LET line == payload.items[i] IN
         IF \/ ~has_menu_item(line.menu_item_id)
            \/ menu_items[line.menu_item_id].restaurant_id # payload.restaurant_id
         THEN [sess |-> sess, total |-> total, code |-> 400,
               detail |-> "Invalid menu item", menu_item_id |-> line.menu_item_id]
         ELSE IF ~menu_items[line.menu_item_id].is_available
         THEN [sess |-> sess, total |-> total, code |-> 400,
               detail |-> "Menu item is not available", menu_item_id |-> line.menu_item_id]
         ELSE LET price_each == menu_items[line.menu_item_id].price_cents
                  order_item == [order_id |-> order_id,
                                 menu_item_id |-> line.menu_item_id,
                                 quantity |-> line.quantity,
                                 price_cents_each |-> price_each]
              IN  stage_lines(add_order_item(sess, order_item), payload, order_id,
                              i + 1, total + price_each * line.quantity)

(* The handler body: the final session, whether the Order row was flushed  *)
(* (which draws an id from the orders sequence) and the response.          *)
create_order_handler(payload) ==
    IF ~has_restaurant(payload.restaurant_id)
    THEN [sess |-> SessionLocal, flushed |-> FALSE,
          resp |-> [op |-> "create_order", code |-> 404,
                    detail |-> "Restaurant not found", menu_item_id |-> 0]]
    ELSE LET order == [id |-> order_id_seq,
                       restaurant_id |-> payload.restaurant_id,
                       status |-> "created",
                       total_cents |-> 0]
             s1 == add_flush_order(SessionLocal, order)
             st == stage_lines(s1, payload, order.id, 1, 0)
         IN  IF st.code # 0
             THEN [sess |-> st.sess, flushed |-> TRUE,
                   resp |-> [op |-> "create_order", code |-> st.code,
                             detail |-> st.detail, menu_item_id |-> st.menu_item_id]]
             ELSE LET s2 == commit(set_total_cents(st.sess, order.id, st.total))
                      order_full == select_order(s2.view.orders, order.id)[1]
                  IN  [sess |-> s2, flushed |-> TRUE,
                       resp |-> [op |-> "create_order", code |-> 200,
                                 order |-> _order_to_read(s2.view, order_full)]]

Unprocessable(op) == [op |-> op, code |-> 422]

create_order(payload) ==
    /\ serve
    /\ req' = [op |-> "create_order", restaurant_id |-> payload.restaurant_id,
               items |-> payload.items]
    /\ IF ~OrderCreate(payload)
       THEN /\ resp' = Unprocessable("create_order")
            /\ UNCHANGED <<tables, order_id_seq>>
       ELSE /\ has_restaurant(payload.restaurant_id) => order_id_seq <= MaxOrderId
            /\ LET r == create_order_handler(payload)
                   st == get_db(r.sess)
               IN  /\ orders' = st.orders
                   /\ order_items' = st.order_items
                   /\ payments' = st.payments
                   /\ order_id_seq' = IF r.flushed THEN order_id_seq + 1 ELSE order_id_seq
                   /\ resp' = r.resp
            /\ UNCHANGED <<restaurants, menu_items>>
    /\ depends_get_db

(* --------------------------- catalogue (CRUD) -------------------------- *)
create_restaurant(payload) ==
    /\ serve
    /\ Len(restaurants) < MaxRestaurants
    /\ req' = [op |-> "create_restaurant", is_active |-> payload.is_active]
    /\ restaurants' = Append(restaurants, [is_active |-> payload.is_active])
    /\ resp' = [op |-> "create_restaurant", code |-> 200,
                id |-> Len(restaurants) + 1, is_active |-> payload.is_active]
    /\ UNCHANGED <<menu_items, orders, order_items, payments, order_id_seq>>
    /\ depends_get_db

create_menu_item(payload) ==
    /\ serve
    /\ req' = [op |-> "create_menu_item", restaurant_id |-> payload.restaurant_id,
               price_cents |-> payload.price_cents,
               is_available |-> payload.is_available]
    /\ IF ~has_restaurant(payload.restaurant_id)
       THEN /\ resp' = [op |-> "create_menu_item", code |-> 404]
            /\ UNCHANGED menu_items
       ELSE /\ Len(menu_items) < MaxMenuItems
            /\ menu_items' = Append(menu_items,
                                    [restaurant_id |-> payload.restaurant_id,
                                     price_cents |-> payload.price_cents,
                                     is_available |-> payload.is_available])
            /\ resp' = [op |-> "create_menu_item", code |-> 200,
                        id |-> Len(menu_items) + 1]
    /\ UNCHANGED <<restaurants, orders, order_items, payments, order_id_seq>>
    /\ depends_get_db

(* ------------------------- get_order, list_orders ---------------------- *)
get_order_handler(order_id) ==
    LET found == select_order(SessionLocal.view.orders, order_id)
    IN  IF found = <<>>
        THEN [op |-> "get_order", code |-> 404]
        ELSE [op |-> "get_order", code |-> 200,
              order |-> _order_to_read(SessionLocal.view, found[1])]

get_order(order_id) ==
    /\ serve
    /\ req' = [op |-> "get_order", order_id |-> order_id]
    /\ resp' = get_order_handler(order_id)
    /\ UNCHANGED <<tables, order_id_seq>>
    /\ depends_get_db

(* ORDER BY id DESC: order ids grow with insertion, so the rows in         *)
(* descending id order are the table's rows reversed.                      *)
list_orders_handler(st, status, limit, offset) ==
    LET matching == IF status = "None" THEN st.orders
                    ELSE SelectSeq(st.orders, LAMBDA o : o.status = status)
        page == Slice(Reverse(matching), offset, limit)
    IN  [i \in 1..Len(page) |-> _order_to_read(st, page[i])]

list_orders(status, limit, offset) ==
    /\ serve
    /\ req' = [op |-> "list_orders", status |-> status, limit |-> limit,
               offset |-> offset]
    /\ resp' = [op |-> "list_orders", code |-> 200,
                orders |-> list_orders_handler(SessionLocal.view, status, limit, offset)]
    /\ UNCHANGED <<tables, order_id_seq>>
    /\ depends_get_db

(* ------------------------ update_delivery_status ----------------------- *)
(* mutant: a delivered or cancelled order accepts no further status *)
update_delivery_status_terminal(order_id, payload) ==
    IF payload.status \notin _VALID_STATUSES
    THEN [sess |-> SessionLocal,
          resp |-> [op |-> "update_delivery_status", code |-> 400]]
    ELSE IF select_order(SessionLocal.view.orders, order_id) = <<>>
    THEN [sess |-> SessionLocal,
          resp |-> [op |-> "update_delivery_status", code |-> 404]]
    ELSE IF select_order(SessionLocal.view.orders, order_id)[1].status
                \in {"delivered", "cancelled"}
    THEN [sess |-> SessionLocal,
          resp |-> [op |-> "update_delivery_status", code |-> 400]]
    ELSE LET s1 == commit(set_status(SessionLocal, order_id, payload.status))
         IN  [sess |-> s1,
              resp |-> [op |-> "update_delivery_status", code |-> 200,
                        order |-> _order_to_read(s1.view,
                                     select_order(s1.view.orders, order_id)[1])]]

(* mutant: the order is looked up before the status string is validated *)
update_delivery_status_lookup_first(order_id, payload) ==
    IF select_order(SessionLocal.view.orders, order_id) = <<>>
    THEN [sess |-> SessionLocal,
          resp |-> [op |-> "update_delivery_status", code |-> 404]]
    ELSE IF payload.status \notin _VALID_STATUSES
    THEN [sess |-> SessionLocal,
          resp |-> [op |-> "update_delivery_status", code |-> 400]]
    ELSE LET s1 == commit(set_status(SessionLocal, order_id, payload.status))
         IN  [sess |-> s1,
              resp |-> [op |-> "update_delivery_status", code |-> 200,
                        order |-> _order_to_read(s1.view,
                                     select_order(s1.view.orders, order_id)[1])]]

update_delivery_status_handler(order_id, payload) ==
    IF payload.status \notin _VALID_STATUSES
    THEN [sess |-> SessionLocal,
          resp |-> [op |-> "update_delivery_status", code |-> 400]]
    ELSE IF select_order(SessionLocal.view.orders, order_id) = <<>>
    THEN [sess |-> SessionLocal,
          resp |-> [op |-> "update_delivery_status", code |-> 404]]
    ELSE LET s1 == commit(set_status(SessionLocal, order_id, payload.status))
         IN  [sess |-> s1,
              resp |-> [op |-> "update_delivery_status", code |-> 200,
                        order |-> _order_to_read(s1.view,
                                     select_order(s1.view.orders, order_id)[1])]]

update_delivery_status(order_id, payload) ==
    /\ serve
    /\ req' = [op |-> "update_delivery_status", order_id |-> order_id,
               status |-> payload.status]
    /\ LET r == update_delivery_status_handler(order_id, payload)
           st == get_db(r.sess)
       IN  /\ orders' = st.orders
           /\ order_items' = st.order_items
           /\ payments' = st.payments
           /\ resp' = r.resp
    /\ UNCHANGED <<restaurants, menu_items, order_id_seq>>
    /\ depends_get_db

(* ----------------------------- create_payment -------------------------- *)
(* mutant: a payment of zero is not recorded *)
add_payment_nonzero(sess, payment) ==
    IF payment.amount_cents = 0 THEN sess
    ELSE [sess EXCEPT !.view.payments =
            Append(@, [id |-> Len(@) + 1,
                       order_id |-> payment.order_id,
                       provider |-> payment.provider,
                       amount_cents |-> payment.amount_cents])]

add_payment(sess, payment) ==
    [sess EXCEPT !.view.payments =
        Append(@, [id |-> Len(@) + 1,
                   order_id |-> payment.order_id,
                   provider |-> payment.provider,
                   amount_cents |-> payment.amount_cents])]

(* the payment response after commit: the order's reloaded status *)
payment_response(sess, order_id) ==
    [sess |-> sess,
     resp |-> [op |-> "create_payment", code |-> 200,
               status |-> "ok",
               order_id |-> order_id,
               order_status |-> select_order(sess.view.orders, order_id)[1].status]]

(* mutant: only an order still 'created' is promoted to 'paid' *)
create_payment_created_only(payload) ==
    LET found == select_order(SessionLocal.view.orders, payload.order_id)
    IN  IF found = <<>>
        THEN [sess |-> SessionLocal,
              resp |-> [op |-> "create_payment", code |-> 404]]
        ELSE LET order == found[1]
                 s1 == add_payment(SessionLocal, payload)
                 s2 == IF /\ payload.amount_cents >= order.total_cents
                          /\ order.status = "created"
                       THEN set_status(s1, order.id, "paid")
                       ELSE s1
             IN  payment_response(commit(s2), order.id)

(* mutant: the order's payments are summed and compared with the total *)
create_payment_cumulative(payload) ==
    LET found == select_order(SessionLocal.view.orders, payload.order_id)
    IN  IF found = <<>>
        THEN [sess |-> SessionLocal,
              resp |-> [op |-> "create_payment", code |-> 404]]
        ELSE LET order == found[1]
                 s1 == add_payment(SessionLocal, payload)
                 mine == SelectSeq(s1.view.payments, LAMBDA p : p.order_id = order.id)
                 paid == SumSeq([i \in 1..Len(mine) |-> mine[i].amount_cents])
                 s2 == IF paid >= order.total_cents
                       THEN set_status(s1, order.id, "paid")
                       ELSE s1
             IN  payment_response(commit(s2), order.id)

create_payment_handler(payload) ==
    LET found == select_order(SessionLocal.view.orders, payload.order_id)
    IN  IF found = <<>>
        THEN [sess |-> SessionLocal,
              resp |-> [op |-> "create_payment", code |-> 404]]
        ELSE LET order == found[1]
                 s1 == add_payment(SessionLocal, payload)
                 s2 == IF payload.amount_cents >= order.total_cents
                       THEN set_status(s1, order.id, "paid")
                       ELSE s1
             IN  payment_response(commit(s2), order.id)

create_payment(payload) ==
    /\ serve
    /\ req' = [op |-> "create_payment", order_id |-> payload.order_id,
               amount_cents |-> payload.amount_cents, provider |-> payload.provider]
    /\ IF ~PaymentCreate(payload)
       THEN /\ resp' = Unprocessable("create_payment")
            /\ UNCHANGED <<orders, order_items, payments>>
       ELSE /\ select_order(orders, payload.order_id) # <<>>
                    => Len(payments) < MaxPayments
            /\ LET r == create_payment_handler(payload)
                   st == get_db(r.sess)
               IN  /\ orders' = st.orders
                   /\ order_items' = st.order_items
                   /\ payments' = st.payments
                   /\ resp' = r.resp
    /\ UNCHANGED <<restaurants, menu_items, order_id_seq>>
    /\ depends_get_db

(* ------------------------------ db_session ---------------------------- *)
(* internal use of the db_session context manager; the body returns or     *)
(* raises and touches no table                                             *)
db_session(outcome) ==
    /\ serve
    /\ req' = [op |-> "db_session", outcome |-> outcome]
    /\ resp' = [op |-> "db_session", code |-> IF outcome = "return" THEN 200 ELSE 500]
    /\ session_log' = request_ended(session_log, db_session_scope(outcome), FALSE)
    /\ UNCHANGED <<tables, order_id_seq, co>>

(* ---------------------------- specification ---------------------------- *)
Init ==
    /\ restaurants = <<>>
    /\ menu_items = <<>>
    /\ orders = <<>>
    /\ order_items = <<>>
    /\ payments = <<>>
    /\ order_id_seq = 1
    /\ served = 0
    /\ session_log = [open |-> 0, closes |-> 0]
    /\ co = [pc |-> "idle"]
    /\ req = [op |-> "none"]
    /\ resp = [op |-> "none", code |-> 0]

Next ==
    \/ \E a \in BOOLEAN : create_restaurant([is_active |-> a])
    \/ \E p \in MenuItemCreateInputs : create_menu_item(p)
    \/ \E p \in OrderCreateInputs : create_order(p)
    \/ \E id \in OrderIdInputs : get_order(id)
    \/ \E s \in ListStatusInputs, l \in ListLimits, o \in ListOffsets :
            list_orders(s, l, o)
    \/ \E id \in OrderIdInputs, s \in StatusInputs :
            update_delivery_status(id, [status |-> s])
    \/ \E p \in PaymentCreateInputs : create_payment(p)
    \/ \E o \in {"return", "raise"} : db_session(o)

Spec == Init /\ [][Next]_vars

(* ------------------- create_order, statement by statement -------------- *)
(* The same handler as create_order, taken in steps so that other requests *)
(* run between its statements.  co is the request in flight: its payload,  *)
(* its flushed Order row, its pending OrderItems, the running total, the   *)
(* index of the next line and its session.                                 *)

(* mutant: the sessionmaker runs with autocommit, so a flushed row is      *)
(* durable at once                                                         *)
flushed_orders_autocommit(os, order) == Append(os, order)

(* the orders other sessions see once this session flushed its Order row:  *)
(* sessionmaker(autocommit=False) keeps the row inside the transaction     *)
flushed_orders(os, order) == os

(* the transaction of the request in flight: the rows committed by now     *)
(* plus its own flushed Order row and pending OrderItems                   *)
co_session == [add_flush_order(SessionLocal, co.order) EXCEPT !.pending = co.pending]

(* the request in flight ends with response r and store st *)
co_end(r, st) ==
    /\ req' = [op |-> "create_order", restaurant_id |-> co.payload.restaurant_id,
               items |-> co.payload.items]
    /\ resp' = r
    /\ orders' = st.orders
    /\ order_items' = st.order_items
    /\ payments' = st.payments
    /\ session_log' = request_ended(session_log,
                                    get_db_finally(co.db, exit_of(r.code)), TRUE)
    /\ co' = [pc |-> "idle"]
    /\ UNCHANGED <<restaurants, menu_items, order_id_seq, served>>

(* orders.py 39-47: the request arrives, the restaurant is looked up, the  *)
(* Order row is added and flushed                                          *)
create_order_begin(payload) ==
    /\ co.pc = "idle"
    /\ serve
    /\ IF ~OrderCreate(payload) \/ ~has_restaurant(payload.restaurant_id)
       THEN /\ req' = [op |-> "create_order", restaurant_id |-> payload.restaurant_id,
                       items |-> payload.items]
            /\ resp' = IF ~OrderCreate(payload) THEN Unprocessable("create_order")
                       ELSE create_order_handler(payload).resp
            /\ UNCHANGED <<tables, order_id_seq>>
            /\ depends_get_db
       ELSE /\ order_id_seq <= MaxOrderId
            /\ LET order == [id |-> order_id_seq,
                             restaurant_id |-> payload.restaurant_id,
                             status |-> "created",
                             total_cents |-> 0]
               IN  /\ co' = [pc |-> "staging", payload |-> payload, order |-> order,
                             flushed |-> TRUE, pending |-> <<>>, total |-> 0, i |-> 1,
                             db |-> get_db_yield]
                   /\ orders' = flushed_orders(orders, order)
            /\ order_id_seq' = order_id_seq + 1
            /\ session_log' = [session_log EXCEPT !.open = @ + 1]
            /\ req' = [op |-> "create_order", restaurant_id |-> payload.restaurant_id,
                       items |-> payload.items]
            \* no response yet: code 0, as before the first request
            /\ resp' = [op |-> "create_order", code |-> 0]
            /\ UNCHANGED <<restaurants, menu_items, order_items, payments>>

(* orders.py 50-66: one pass of the loop, for line co.i *)
create_order_line ==
    /\ co.pc = "staging"
    /\ co.i <= Len(co.payload.items)
    /\ LET upto == [co.payload EXCEPT !.items = SubSeq(@, 1, co.i)]
           st == stage_lines(co_session, upto, co.order.id, co.i, co.total)
       IN  IF st.code # 0
           THEN co_end([op |-> "create_order", code |-> st.code,
                        detail |-> st.detail, menu_item_id |-> st.menu_item_id],
                       get_db(st.sess))
           ELSE /\ co' = [co EXCEPT !.pending = st.sess.pending,
                                    !.total = st.total,
                                    !.i = @ + 1]
                /\ UNCHANGED <<tables, order_id_seq, served, req, resp, session_log>>

(* orders.py 68-79: the total is stored, the transaction committed and the *)
(* order reloaded with its items                                           *)
create_order_commit ==
    /\ co.pc = "staging"
    /\ co.i > Len(co.payload.items)
    /\ LET s2 == commit(set_total_cents(co_session, co.order.id, co.total))
           order_full == select_order(s2.view.orders, co.order.id)[1]
       IN  co_end([op |-> "create_order", code |-> 200,
                   order |-> _order_to_read(s2.view, order_full)],
                  get_db(s2))

NextSteps ==
    \/ \E a \in BOOLEAN : create_restaurant([is_active |-> a])
    \/ \E p \in MenuItemCreateInputs : create_menu_item(p)
    \/ \E p \in OrderCreateInputs : create_order_begin(p)
    \/ create_order_line
    \/ create_order_commit
    \/ \E id \in OrderIdInputs : get_order(id)
    \/ \E s \in ListStatusInputs, l \in ListLimits, o \in ListOffsets :
            list_orders(s, l, o)
    \/ \E id \in OrderIdInputs, s \in StatusInputs :
            update_delivery_status(id, [status |-> s])
    \/ \E p \in PaymentCreateInputs : create_payment(p)
    \/ \E o \in {"return", "raise"} : db_session(o)

SpecSteps == Init /\ [][NextSteps]_vars

(* ------------------------- shared claim vocabulary --------------------- *)
RecognizedStatuses ==
    {"created", "paid", "preparing", "out_for_delivery", "delivered", "cancelled"}

(* the step just taken served a request of kind op (req' is that request) *)
Served(op) == served' = served + 1 /\ req'.op = op

OrderExists(order_id) == \E i \in 1..Len(orders) : orders[i].id = order_id

OrderById(os, order_id) == os[CHOOSE i \in 1..Len(os) : os[i].id = order_id]

ItemsOf(order_id) == SelectSeq(order_items, LAMBDA oi : oi.order_id = order_id)

LineTotals(items) == [i \in 1..Len(items) |-> items[i].quantity * items[i].price_cents_each]

(* a request line that references an available menu item of restaurant rid *)
LineOk(rid, line) ==
    /\ line.quantity >= 1
    /\ line.menu_item_id \in DOMAIN menu_items
    /\ menu_items[line.menu_item_id].restaurant_id = rid
    /\ menu_items[line.menu_item_id].is_available

(* ---------------------------------- C1 --------------------------------- *)
(* C1: create_order for an existing restaurant and a non-empty list whose  *)
(* lines all reference available menu items of that restaurant with        *)
(* quantity >= 1 succeeds with status 'created', returns one item per      *)
(* request line in request order, each priced at the menu item's           *)
(* price_cents, and total_cents is the sum of price_cents_each * quantity  *)
(* over the returned items.                                                *)
C1_CreateOrderPricesAndTotal ==
    [][ ( /\ Served("create_order")
          /\ req'.restaurant_id \in DOMAIN restaurants
          /\ Len(req'.items) >= 1
          /\ \A i \in 1..Len(req'.items) : LineOk(req'.restaurant_id, req'.items[i]) )
        => /\ resp'.code = 200
           /\ resp'.order.status = "created"
           /\ resp'.order.restaurant_id = req'.restaurant_id
           /\ Len(resp'.order.items) = Len(req'.items)
           /\ \A i \in 1..Len(req'.items) :
                 /\ resp'.order.items[i].menu_item_id = req'.items[i].menu_item_id
                 /\ resp'.order.items[i].quantity = req'.items[i].quantity
                 /\ resp'.order.items[i].price_cents_each
                        = menu_items[req'.items[i].menu_item_id].price_cents
           /\ resp'.order.total_cents = SumSeq(LineTotals(resp'.order.items))
      ]_vars

(* a two-line order over two differently priced items, one with quantity 2 *)
C1_Witness ==
    /\ req.op = "create_order"
    /\ resp.code = 200
    /\ Len(resp.order.items) = 2
    /\ resp.order.items[1].menu_item_id # resp.order.items[2].menu_item_id
    /\ resp.order.items[1].price_cents_each # resp.order.items[2].price_cents_each
    /\ resp.order.items[1].quantity # resp.order.items[2].quantity

(* ---------------------------------- C2 --------------------------------- *)
(* C2: whenever create_order fails (restaurant missing, or some line at    *)
(* any position references a missing, foreign or unavailable menu item),   *)
(* the persisted Order and OrderItem rows are the same after the call as   *)
(* before it, and list_orders shows the same orders.                       *)
C2_FailedCreateOrderPersistsNothing ==
    [][ (Served("create_order") /\ resp'.code # 200)
        => /\ orders' = orders
           /\ order_items' = order_items
           /\ list_orders_handler([orders |-> orders', order_items |-> order_items'],
                                  "None", 50, 0)
                = list_orders_handler([orders |-> orders, order_items |-> order_items],
                                      "None", 50, 0)
      ]_vars

(* the second line is rejected after a valid first line was staged *)
C2_Witness ==
    /\ req.op = "create_order"
    /\ resp.code = 400
    /\ Len(req.items) = 2
    /\ LineOk(req.restaurant_id, req.items[1])
    /\ ~LineOk(req.restaurant_id, req.items[2])
    /\ order_id_seq > 1

(* ---------------------------------- C3 --------------------------------- *)
(* C3: for an existing order in any status, create_payment with            *)
(* amount_cents >= total_cents leaves the order 'paid', with a smaller     *)
(* amount leaves the status as it was, and the returned order_status is    *)
(* the persisted status after the call.                                    *)
C3_PaymentStatusRule ==
    [][ (Served("create_payment") /\ req'.amount_cents >= 0 /\ OrderExists(req'.order_id))
        => LET before == OrderById(orders, req'.order_id)
               after == OrderById(orders', req'.order_id)
           IN  /\ resp'.code = 200
               /\ req'.amount_cents >= before.total_cents => after.status = "paid"
               /\ req'.amount_cents < before.total_cents => after.status = before.status
               /\ resp'.order_status = after.status
      ]_vars

(* an insufficient payment on a cancelled order, which stays cancelled *)
C3_Witness ==
    /\ req.op = "create_payment"
    /\ resp.code = 200
    /\ resp.order_status = "cancelled"
    /\ req.amount_cents < OrderById(orders, req.order_id).total_cents

(* ---------------------------------- C4 --------------------------------- *)
(* C4: update_delivery_status of an existing order to any of the six       *)
(* statuses succeeds whatever the prior status, and the get_order that     *)
(* follows it returns the requested status.                                *)
C4_AnyTransitionAccepted ==
    [][ /\ ( /\ Served("update_delivery_status")
             /\ OrderExists(req'.order_id)
             /\ req'.status \in RecognizedStatuses )
           => /\ resp'.code = 200
              /\ resp'.order.status = req'.status
              /\ OrderById(orders', req'.order_id).status = req'.status
        /\ ( /\ req.op = "update_delivery_status"
             /\ resp.code = 200
             /\ Served("get_order")
             /\ req'.order_id = req.order_id )
           => /\ resp'.code = 200
              /\ resp'.order.status = req.status
      ]_vars

(* a backward transition: an order that a covering payment had made 'paid' *)
(* is set back to 'created'                                                *)
C4_Witness ==
    /\ req.op = "update_delivery_status"
    /\ resp.code = 200
    /\ resp.order.status = "created"
    /\ \E i \in 1..Len(payments) :
          /\ payments[i].order_id = req.order_id
          /\ payments[i].amount_cents >= resp.order.total_cents

(* ---------------------------------- C5 --------------------------------- *)
(* C5: update_delivery_status with a status outside the six recognized     *)
(* values fails with HTTP 400 and leaves the status of every order         *)
(* unchanged.                                                              *)
C5_InvalidStatusRejected ==
    [][ (Served("update_delivery_status") /\ req'.status \notin RecognizedStatuses)
        => /\ resp'.code = 400
           /\ orders' = orders
      ]_vars

(* a bogus status addressed to an existing order, with another order there *)
C5_Witness ==
    /\ req.op = "update_delivery_status"
    /\ req.status = "bogus"
    /\ resp.code = 400
    /\ OrderExists(req.order_id)
    /\ Len(orders) = 2

(* ---------------------------------- C6 --------------------------------- *)
(* C6 as stated: update_delivery_status fails with HTTP 404 whenever the   *)
(* addressed order does not exist, whatever the status string, and changes *)
(* nothing in the store.                                                   *)
C6_Original ==
    [][ (Served("update_delivery_status") /\ ~OrderExists(req'.order_id))
        => /\ resp'.code = 404
           /\ tables' = tables
      ]_vars

(* C6 amended: when the addressed order does not exist,                    *)
(* update_delivery_status fails with HTTP 404 if the status string is one  *)
(* of the six recognized values and with HTTP 400 otherwise (the status is *)
(* validated before the order is looked up); either way nothing in the     *)
(* store changes.                                                          *)
C6_MissingOrderRejected ==
    [][ (Served("update_delivery_status") /\ ~OrderExists(req'.order_id))
        => /\ req'.status \in RecognizedStatuses => resp'.code = 404
           /\ req'.status \notin RecognizedStatuses => resp'.code = 400
           /\ tables' = tables
      ]_vars

(* a recognized status addressed to a missing order while another exists *)
C6_Witness ==
    /\ req.op = "update_delivery_status"
    /\ req.status \in RecognizedStatuses
    /\ resp.code = 404
    /\ ~OrderExists(req.order_id)
    /\ Len(orders) >= 1

(* ---------------------------------- C7 --------------------------------- *)
(* C7: in every reachable state every persisted order's total_cents equals *)
(* the sum over its items of quantity * price_cents_each.                  *)
C7_TotalIsSumOfItems ==
    \A i \in 1..Len(orders) :
        orders[i].total_cents = SumSeq(LineTotals(ItemsOf(orders[i].id)))

(* a two-item order that a later payment or status update has touched *)
C7_Witness ==
    \E i \in 1..Len(orders) :
        /\ Len(ItemsOf(orders[i].id)) = 2
        /\ orders[i].status # "created"
        /\ orders[i].total_cents > 0

(* ---------------------------------- C8 --------------------------------- *)
(* C8: payments are never accumulated: a create_payment below the total    *)
(* leaves the status as it was even when the order's payments then sum to  *)
(* the total or more, and a create_payment turns a non-paid order 'paid'   *)
(* only when its own amount covers the total.                              *)
PaidSum(ps, order_id) ==
    LET mine == SelectSeq(ps, LAMBDA p : p.order_id = order_id)
    IN  SumSeq([i \in 1..Len(mine) |-> mine[i].amount_cents])

C8_PaymentsNotAccumulated ==
    [][ (Served("create_payment") /\ req'.amount_cents >= 0 /\ OrderExists(req'.order_id))
        => LET before == OrderById(orders, req'.order_id)
               after == OrderById(orders', req'.order_id)
           IN  /\ ( /\ req'.amount_cents < before.total_cents
                    /\ PaidSum(payments', before.id) >= before.total_cents )
                  => after.status = before.status
               /\ (before.status # "paid" /\ after.status = "paid")
                  => req'.amount_cents >= before.total_cents
      ]_vars

(* partial payments that together cover the total of a still unpaid order *)
C8_Witness ==
    /\ req.op = "create_payment"
    /\ resp.code = 200
    /\ resp.order_status # "paid"
    /\ \A i \in 1..Len(payments) :
          payments[i].order_id = req.order_id
             => payments[i].amount_cents < OrderById(orders, req.order_id).total_cents
    /\ PaidSum(payments, req.order_id) >= OrderById(orders, req.order_id).total_cents

(* ---------------------------------- C9 --------------------------------- *)
(* C9: create_payment with amount_cents >= 0 persists exactly one new      *)
(* Payment with the given order_id, amount_cents and provider if the order *)
(* exists, and otherwise fails with HTTP 404 and persists none; every      *)
(* persisted Payment references an existing order.                         *)
C9_PaymentPersistedIffOrderExists ==
    /\ [][ (Served("create_payment") /\ req'.amount_cents >= 0)
           => IF OrderExists(req'.order_id)
              THEN /\ resp'.code = 200
                   /\ Len(payments') = Len(payments) + 1
                   /\ SubSeq(payments', 1, Len(payments)) = payments
                   /\ payments'[Len(payments')].order_id = req'.order_id
                   /\ payments'[Len(payments')].amount_cents = req'.amount_cents
                   /\ payments'[Len(payments')].provider = req'.provider
              ELSE /\ resp'.code = 404
                   /\ payments' = payments
         ]_vars
    /\ [](\A i \in 1..Len(payments) : OrderExists(payments[i].order_id))

(* a zero payment recorded for an existing order *)
C9_Witness ==
    /\ req.op = "create_payment"
    /\ resp.code = 200
    /\ req.amount_cents = 0
    /\ payments[Len(payments)].amount_cents = 0
    /\ payments[Len(payments)].provider = "card"

(* ---------------------------------- C10 -------------------------------- *)
(* C10: in every reachable state every persisted order references an       *)
(* existing restaurant and has at least one OrderItem, and each of its     *)
(* OrderItems has quantity >= 1 and references an existing, available      *)
(* MenuItem of the order's restaurant (menu items are never modified, so   *)
(* available now is available at creation).                                *)
C10_OrderReferencesValid ==
    \A i \in 1..Len(orders) :
        /\ orders[i].restaurant_id \in DOMAIN restaurants
        /\ Len(ItemsOf(orders[i].id)) >= 1
        /\ \A k \in 1..Len(ItemsOf(orders[i].id)) :
              LET oi == ItemsOf(orders[i].id)[k]
              IN  /\ oi.quantity >= 1
                  /\ oi.menu_item_id \in DOMAIN menu_items
                  /\ menu_items[oi.menu_item_id].restaurant_id = orders[i].restaurant_id
                  /\ menu_items[oi.menu_item_id].is_available

(* an order persisted while the catalogue also holds an item it could not  *)
(* have referenced (another restaurant's, or an unavailable one)           *)
C10_Witness ==
    /\ Len(orders) >= 1
    /\ \E m \in DOMAIN menu_items :
          \/ menu_items[m].restaurant_id # orders[1].restaurant_id
          \/ ~menu_items[m].is_available

(* ---------------------------------- C11 -------------------------------- *)
(* C11: in every reachable state the status of every persisted order is    *)
(* one of created, paid, preparing, out_for_delivery, delivered,           *)
(* cancelled.                                                              *)
C11_StatusRecognized ==
    \A i \in 1..Len(orders) : orders[i].status \in RecognizedStatuses

(* an unrecognized status was just rejected for an order that an earlier   *)
(* request had moved away from 'created'                                   *)
C11_Witness ==
    /\ req.op = "update_delivery_status"
    /\ req.status = "bogus"
    /\ OrderExists(req.order_id)
    /\ OrderById(orders, req.order_id).status \notin {"created", "paid"}

(* ---------------------------------- C12 -------------------------------- *)
(* C12: an order is only ever created for a restaurant whose is_active     *)
(* flag is true (restaurants are never modified, so the flag now is the    *)
(* flag at creation): no persisted order belongs to an inactive            *)
(* restaurant.                                                             *)
C12_OnlyActiveRestaurantsTakeOrders ==
    \A i \in 1..Len(orders) : restaurants[orders[i].restaurant_id].is_active

(* ---------------------------------- C15 -------------------------------- *)
(* C15: no step adds, removes or modifies the OrderItems of an existing    *)
(* order, changes its total_cents or restaurant_id, or modifies or removes *)
(* an existing Payment; create_payment changes at most the status of the   *)
(* addressed order and appends at most one Payment;                        *)
(* update_delivery_status changes only the status of the addressed order;  *)
(* both leave every other order untouched.                                 *)
OrdersKeptExceptStatusOf(order_id) ==
    /\ Len(orders') = Len(orders)
    /\ \A i \in 1..Len(orders) :
          /\ orders'[i].id = orders[i].id
          /\ orders'[i].restaurant_id = orders[i].restaurant_id
          /\ orders'[i].total_cents = orders[i].total_cents
          /\ orders[i].id # order_id => orders'[i] = orders[i]

C15_OrdersAndPaymentsFrame ==
    [][ /\ Len(orders') >= Len(orders)
        /\ \A i \in 1..Len(orders) :
              /\ orders'[i].id = orders[i].id
              /\ orders'[i].restaurant_id = orders[i].restaurant_id
              /\ orders'[i].total_cents = orders[i].total_cents
              /\ SelectSeq(order_items', LAMBDA oi : oi.order_id = orders[i].id)
                    = ItemsOf(orders[i].id)
        /\ Len(payments') >= Len(payments)
        /\ SubSeq(payments', 1, Len(payments)) = payments
        /\ Served("create_payment")
              => /\ OrdersKeptExceptStatusOf(req'.order_id)
                 /\ order_items' = order_items
                 /\ Len(payments') <= Len(payments) + 1
        /\ Served("update_delivery_status")
              => /\ OrdersKeptExceptStatusOf(req'.order_id)
                 /\ order_items' = order_items
                 /\ payments' = payments
      ]_vars

(* a payment made one of two orders 'paid' while the other stayed created *)
C15_Witness ==
    /\ req.op = "create_payment"
    /\ resp.code = 200
    /\ resp.order_status = "paid"
    /\ Len(orders) = 2
    /\ \E i \in 1..2 : orders[i].id # req.order_id /\ orders[i].status = "created"

(* ---------------------------------- C13 -------------------------------- *)
(* C13: within one create_order call no Order row has been flushed and no  *)
(* OrderItem has been staged while a request line is still to be           *)
(* validated: every write comes after the validation of the last line.     *)
C13_ValidationBeforeAnyWrite ==
    (co.pc = "staging" /\ co.i <= Len(co.payload.items))
        => (~co.flushed /\ co.pending = <<>>)

(* ---------------------------------- C14 -------------------------------- *)
(* C14: while a create_order is in flight, every committed order has at    *)
(* least one item and a total equal to the sum of its items; the order in  *)
(* flight is not among the committed orders; a get_order,                  *)
(* update_delivery_status or create_payment addressing it is refused and   *)
(* changes nothing, and list_orders does not return it.  When the          *)
(* create_order ends, the order appears with one item per request line and *)
(* its final total, or (on failure) does not appear and its id is never    *)
(* used again.                                                             *)
DurableOrdersComplete ==
    \A k \in 1..Len(orders) :
        /\ orders[k].id < order_id_seq
        /\ Len(ItemsOf(orders[k].id)) >= 1
        /\ orders[k].total_cents = SumSeq(LineTotals(ItemsOf(orders[k].id)))

InFlightOrderHidden ==
    co.pc = "staging"
        => /\ ~OrderExists(co.order.id)
           /\ ItemsOf(co.order.id) = <<>>
           /\ co.order.id < order_id_seq

C14_NoPartialOrderObserved ==
    [][ /\ DurableOrdersComplete'
        /\ InFlightOrderHidden'
        /\ (co.pc = "staging" /\ co' = co /\ served' = served + 1)
              => /\ ( /\ req'.op \in {"get_order", "update_delivery_status",
                                      "create_payment"}
                      /\ req'.order_id = co.order.id )
                        => /\ resp'.code # 200
                           /\ orders' = orders
                           /\ order_items' = order_items
                           /\ payments' = payments
                 /\ req'.op = "list_orders"
                        => \A k \in 1..Len(resp'.orders) :
                              /\ resp'.orders[k].id # co.order.id
                              /\ Len(resp'.orders[k].items) >= 1
                              /\ resp'.orders[k].total_cents
                                    = SumSeq(LineTotals(resp'.orders[k].items))
        /\ (co.pc = "staging" /\ co'.pc = "idle" /\ resp'.code = 200)
              => /\ Len(orders') = Len(orders) + 1
                 /\ orders'[Len(orders')].id = co.order.id
                 /\ Len(SelectSeq(order_items', LAMBDA oi : oi.order_id = co.order.id))
                        = Len(co.payload.items)
        /\ (co.pc = "staging" /\ co'.pc = "idle" /\ resp'.code # 200)
              => /\ orders' = orders
                 /\ order_items' = order_items
      ]_vars

(* a create_order of two lines has staged its first line, and a get_order  *)
(* for its order id was answered 404 meanwhile                             *)
C14_Witness ==
    /\ co.pc = "staging"
    /\ Len(co.payload.items) = 2
    /\ co.i = 2
    /\ Len(co.pending) = 1
    /\ req.op = "get_order"
    /\ req.order_id = co.order.id
    /\ resp.code = 404

(* ---------------------------------- C16 -------------------------------- *)
(* C16: the session of every request that has answered was closed exactly  *)
(* once, whether the handler returned or raised, and the only session open *)
(* is that of a request still in flight: none once all have finished.      *)
C16_SessionClosedExactlyOnce ==
    /\ session_log.open = (IF co.pc = "idle" THEN 0 ELSE 1)
    /\ resp.code # 0 => session_log.closes = 1
    /\ co.pc = "staging" => (co.db.open /\ co.db.closes = 0)

(* a create_order that held its session across other requests was refused *)
(* on its second line, and its session is closed                           *)
C16_Witness ==
    /\ req.op = "create_order"
    /\ resp.code = 400
    /\ Len(req.items) = 2
    /\ LineOk(req.restaurant_id, req.items[1])
    /\ co.pc = "idle"
    /\ session_log.open = 0
    /\ session_log.closes = 1

====
